---- MODULE Spec2Model ----
(***************************************************************************)
(* A model of the HLID identifier type of src/src/hlid/__init__.py:        *)
(* construction from the current time, from an explicit datetime and from  *)
(* a raw string, the optional keyed-hash suffix, the field accessors and   *)
(* the comparison operators.                                               *)
(*                                                                         *)
(* A Python str is a sequence of one-character strings.  A secret or a     *)
(* value that is None or "" is the empty sequence (the code tests both     *)
(* with "if value:" / "if secret:").                                       *)
(***************************************************************************)
EXTENDS Integers, Sequences, FiniteSets, TLC

VARIABLES clock, last, ids, sortedIds, out

vars == <<clock, last, ids, sortedIds, out>>

----------------------------------------------------------------------------
(* Bounds of the model.                                                    *)

\* The clock is read at ticks 0..MaxTick.
MaxTick == 3

\* The caller of the sequence scenarios keeps at most MaxIds identifiers.
MaxIds == 3

----------------------------------------------------------------------------
(* Characters and strings.                                                 *)

Digits == <<"0", "1", "2", "3", "4", "5", "6", "7", "8", "9">>

HexDigits == Digits \o <<"a", "b", "c", "d", "e", "f">>

\* Code points of the characters the model's inputs are written in.
Ord ==
    (" " :> 32) @@ ("+" :> 43) @@ ("-" :> 45) @@
    ("0" :> 48) @@ ("1" :> 49) @@ ("2" :> 50) @@ ("3" :> 51) @@ ("4" :> 52) @@
    ("5" :> 53) @@ ("6" :> 54) @@ ("7" :> 55) @@ ("8" :> 56) @@ ("9" :> 57) @@
    ("A" :> 65) @@ ("B" :> 66) @@ ("C" :> 67) @@ ("D" :> 68) @@ ("E" :> 69) @@
    ("F" :> 70) @@ ("G" :> 71) @@ ("X" :> 88) @@ ("_" :> 95) @@
    ("a" :> 97) @@ ("b" :> 98) @@ ("c" :> 99) @@ ("d" :> 100) @@
    ("e" :> 101) @@ ("f" :> 102) @@ ("g" :> 103) @@ ("x" :> 120)

\* The letters of the model's alphabet, lowercase and uppercase.
LowerLetters == <<"a", "b", "c", "d", "e", "f", "g", "x">>

UpperLetters == <<"A", "B", "C", "D", "E", "F", "G", "X">>

\* str.lower() and str.upper() of one character.
LowerChar(c) ==
    LET P == {i \in 1..Len(UpperLetters) : UpperLetters[i] = c}
    IN  IF P = {} THEN c ELSE LowerLetters[CHOOSE i \in P : TRUE]

UpperChar(c) ==
    LET P == {i \in 1..Len(LowerLetters) : LowerLetters[i] = c}
    IN  IF P = {} THEN c ELSE UpperLetters[CHOOSE i \in P : TRUE]

\* str.lower()
Lower(s) == [i \in 1..Len(s) |-> LowerChar(s[i])]

\* str.upper()
Upper(s) == [i \in 1..Len(s) |-> UpperChar(s[i])]

Min(a, b) == IF a < b THEN a ELSE b

Max(a, b) == IF a > b THEN a ELSE b

\* The Python slice s[a:b] for 0 <= a <= b: clamped to the string, never an error.
Slice(s, a, b) == SubSeq(s, a + 1, Min(b, Len(s)))

\* s.replace("-", "")
RemoveHyphens(s) == SelectSeq(s, LAMBDA c : c # "-")

\* The index of the last "-" of s, 0 when there is none.
LastHyphen(s) ==
    LET H == {i \in 1..Len(s) : s[i] = "-"}
    IN  IF H = {} THEN 0 ELSE CHOOSE i \in H : \A j \in H : j <= i

\* "-".join(s.split("-")[0:-1]): what precedes the last hyphen.
BeforeLastGroup(s) == SubSeq(s, 1, LastHyphen(s) - 1)

\* s.split("-")[-1]: what follows the last hyphen (all of s without one).
LastGroup(s) == SubSeq(s, LastHyphen(s) + 1, Len(s))

\* The first index at which a and b differ, 0 when one is a prefix of the other.
FirstDiff(a, b) ==
    LET D == {i \in 1..Min(Len(a), Len(b)) : a[i] # b[i]}
    IN  IF D = {} THEN 0 ELSE CHOOSE i \in D : \A j \in D : i <= j

\* a < b on Python strings: by code point, a proper prefix being smaller.
StrLt(a, b) ==
    LET d == FirstDiff(a, b)
    IN  IF d = 0 THEN Len(a) < Len(b) ELSE Ord[a[d]] < Ord[b[d]]

\* n copies of the character c.
Rep(c, n) == [i \in 1..n |-> c]

----------------------------------------------------------------------------
(* Numbers to text and back.                                               *)

\* str(n) for n >= 0, in the given base of digits.
RECURSIVE ToDigits(_, _)
ToDigits(n, digits) ==
    LET b == Len(digits)
    IN  IF n < b THEN <<digits[n + 1]>>
        ELSE ToDigits(n \div b, digits) \o <<digits[(n % b) + 1]>>

\* The zero-padded forms f"{n:0wd}", strftime's %m %d %H %M %S %f: at least w digits.
ZPad(n, w) ==
    LET d == ToDigits(n, Digits)
    IN  Rep("0", Max(0, w - Len(d))) \o d

\* The value of one digit character in a base of at most 16, -1 for any other.
DigitValue(c, base) ==
    LET P == {i \in 1..base : HexDigits[i] = c}
    IN  IF P = {} THEN -1 ELSE (CHOOSE i \in P : TRUE) - 1

\* s without its leading and trailing blanks (int() strips whitespace).
RECURSIVE Strip(_)
Strip(s) ==
    IF s = <<>> THEN s
    ELSE IF Head(s) = " " THEN Strip(Tail(s))
    ELSE IF s[Len(s)] = " " THEN Strip(SubSeq(s, 1, Len(s) - 1))
    ELSE s

\* The digits of an int() literal: digits of the base, single underscores
\* allowed between two digits.
ValidDigits(s, base) ==
    /\ s # <<>>
    /\ \A i \in 1..Len(s) : s[i] = "_" \/ DigitValue(s[i], base) >= 0
    /\ s[1] # "_" /\ s[Len(s)] # "_"
    /\ \A i \in 1..(Len(s) - 1) : ~(s[i] = "_" /\ s[i + 1] = "_")

RECURSIVE DigitsValue(_, _)
DigitsValue(s, base) ==
    IF s = <<>> THEN 0
    ELSE DigitsValue(SubSeq(s, 1, Len(s) - 1), base) * base
            + DigitValue(s[Len(s)], base)

\* Python's int(s, base) on text: blanks stripped, an optional sign, digits
\* with underscores.  ok = FALSE is ValueError.  (The "0x" prefix int(s, 16)
\* also accepts needs a digit after it, so no string of two characters, the
\* only length the code passes with base 16, uses it.)
PyInt(s, base) ==
    LET t    == Strip(s)
        neg  == t # <<>> /\ Head(t) = "-"
        sgn  == t # <<>> /\ Head(t) \in {"-", "+"}
        body == IF sgn THEN Tail(t) ELSE t
        mag  == DigitsValue(SelectSeq(body, LAMBDA c : c # "_"), base)
    IN  IF ValidDigits(body, base)
        THEN [ok |-> TRUE, val |-> IF neg THEN 0 - mag ELSE mag]
        ELSE [ok |-> FALSE, val |-> 0]

----------------------------------------------------------------------------
(* datetime: the calendar, the UTC conversion, the clock and strftime.      *)

IsLeap(y) == (y % 4 = 0) /\ ((y % 100 # 0) \/ (y % 400 = 0))

DaysInMonth(y, m) ==
    IF m = 2 THEN (IF IsLeap(y) THEN 29 ELSE 28)
    ELSE IF m \in {4, 6, 9, 11} THEN 30 ELSE 31

\* The days before 1 January of year y, counted from 0001-01-01.
DaysBeforeYear(y) ==
    (y - 1) * 365 + ((y - 1) \div 4) - ((y - 1) \div 100) + ((y - 1) \div 400)

RECURSIVE DaysBeforeMonth(_, _)
DaysBeforeMonth(y, m) ==
    IF m = 1 THEN 0 ELSE DaysBeforeMonth(y, m - 1) + DaysInMonth(y, m - 1)

\* date.toordinal(): 0001-01-01 is day 1.
ToOrdinal(y, m, d) == DaysBeforeYear(y) + DaysBeforeMonth(y, m) + d

\* datetime.min and datetime.max as ordinals: years 1..9999.
MinOrdinal == ToOrdinal(1, 1, 1)

MaxOrdinal == ToOrdinal(9999, 12, 31)

\* date.fromordinal(n) for MinOrdinal <= n <= MaxOrdinal.
FromOrdinal(n) ==
    LET y == CHOOSE k \in (n \div 366)..((n \div 365) + 1) :
                 k >= 1 /\ DaysBeforeYear(k) < n /\ n <= DaysBeforeYear(k + 1)
        r == n - DaysBeforeYear(y)
        m == CHOOSE k \in 1..12 :
                 DaysBeforeMonth(y, k) < r /\ r <= DaysBeforeMonth(y, k) + DaysInMonth(y, k)
    IN  [year |-> y, month |-> m, day |-> r - DaysBeforeMonth(y, m)]

\* A datetime value.  aware = FALSE is a naive datetime (tzinfo None);
\* off is the UTC offset of its tzinfo in minutes.
Dt(y, mo, d, h, mi, s, us, aware, off) ==
    [year |-> y, month |-> mo, day |-> d, hour |-> h, minute |-> mi,
     second |-> s, microsecond |-> us, aware |-> aware, off |-> off]

NoDt == Dt(0, 0, 0, 0, 0, 0, 0, FALSE, 0)

\* The constructor datetime(year=..., ..., tzinfo=timezone.utc): ok = FALSE is
\* the ValueError it raises for a field out of range.
PyDatetime(y, mo, d, h, mi, s, us) ==
    IF /\ 1 <= y /\ y <= 9999
       /\ 1 <= mo /\ mo <= 12
       /\ 1 <= d /\ d <= DaysInMonth(y, mo)
       /\ 0 <= h /\ h <= 23
       /\ 0 <= mi /\ mi <= 59
       /\ 0 <= s /\ s <= 59
       /\ 0 <= us /\ us <= 999999
    THEN [ok |-> TRUE, dt |-> Dt(y, mo, d, h, mi, s, us, TRUE, 0)]
    ELSE [ok |-> FALSE, dt |-> NoDt]

\* dt.astimezone(timezone.utc) of an aware datetime: the same instant at
\* offset 0.  ok = FALSE is the OverflowError of an instant outside
\* datetime.min..datetime.max.
AsUTC(dt) ==
    LET mins == dt.hour * 60 + dt.minute - dt.off
        ord  == ToOrdinal(dt.year, dt.month, dt.day) + (mins \div 1440)
        m    == mins % 1440
        ymd  == FromOrdinal(ord)
    IN  IF ord < MinOrdinal \/ ord > MaxOrdinal
        THEN [ok |-> FALSE, dt |-> NoDt]
        ELSE [ok |-> TRUE,
              dt |-> Dt(ymd.year, ymd.month, ymd.day, m \div 60, m % 60,
                        dt.second, dt.microsecond, TRUE, 0)]

\* a < b on two UTC datetimes.
DtLt(a, b) ==
    LET ka == <<ToOrdinal(a.year, a.month, a.day),
                (a.hour * 60 + a.minute) * 60 + a.second, a.microsecond>>
        kb == <<ToOrdinal(b.year, b.month, b.day),
                (b.hour * 60 + b.minute) * 60 + b.second, b.microsecond>>
    IN  \/ ka[1] < kb[1]
        \/ ka[1] = kb[1] /\ ka[2] < kb[2]
        \/ ka[1] = kb[1] /\ ka[2] = kb[2] /\ ka[3] < kb[3]

\* The wall clock: the reading of tick 0.  Successive ticks are 40 microseconds
\* apart: ticks 1 and 2 fall in the same 10^-4 s, ticks 2 and 3 are either
\* side of the new year.
ClockBase == Dt(2024, 12, 31, 23, 59, 59, 999890, TRUE, 0)

\* datetime.now(timezone.utc) at tick t.
ClockReading(t) ==
    LET us   == ClockBase.microsecond + t * 40
        secs == (ClockBase.hour * 60 + ClockBase.minute) * 60 + ClockBase.second
                    + (us \div 1000000)
        ymd  == FromOrdinal(ToOrdinal(ClockBase.year, ClockBase.month, ClockBase.day)
                                + (secs \div 86400))
        sod  == secs % 86400
    IN  Dt(ymd.year, ymd.month, ymd.day, sod \div 3600, (sod \div 60) % 60,
           sod % 60, us % 1000000, TRUE, 0)

\* strftime("%Y"): the year in decimal.  The C library decides whether a year
\* below 1000 is zero-padded to four digits (glibc does not pad), so both
\* forms are possible outcomes; from 1000 on they are the same string.
StrftimeYear(y) == {ZPad(y, 4), ToDigits(y, Digits)}

\* dt.strftime("%Y%m%d-%H%M-%S") with the year rendered as ystr.
Strftime(dt, ystr) ==
    ystr \o ZPad(dt.month, 2) \o ZPad(dt.day, 2) \o <<"-">>
         \o ZPad(dt.hour, 2) \o ZPad(dt.minute, 2) \o <<"-">>
         \o ZPad(dt.second, 2)

----------------------------------------------------------------------------
(* The suffix generator.                                                   *)

RECURSIVE Checksum(_)
Checksum(s) ==
    IF s = <<>> THEN 0
    ELSE (Checksum(SubSeq(s, 1, Len(s) - 1)) * 7 + Ord[s[Len(s)]] * Len(s)) % 65536

HexPad(n, w) ==
    LET d == ToDigits(n, HexDigits)
    IN  Rep("0", Max(0, w - Len(d))) \o d

\* hmac.new(secret, msg, sha256).hexdigest(): SHA-256 itself is outside the
\* model; what the code relies on is kept: the digest is a function of the
\* key and of every character of the message, in lowercase hex.
HmacHexdigest(secret, msg) ==
    LET k == Checksum(secret)
        m == Checksum(msg)
        a == (m * 31 + k * 17 + 11) % 65536
        b == (a * 13 + k + m) % 65536
        c == (b * 29 + a + 5) % 65536
        d == (c * 3 + b + k) % 65536
    IN  HexPad(a, 4) \o HexPad(b, 4) \o HexPad(c, 4) \o HexPad(d, 4)

\* str(uuid4()).split("-")[-1]: the 12 random hex characters the caller of
\* the model draws.
Nonces == { <<"f", "f", "f", "f", "f", "f", "f", "f", "f", "f", "f", "f">>,
            <<"0", "0", "0", "0", "0", "0", "0", "0", "0", "0", "0", "1">> }

\* _trunc_sha256_hmac_else_nonce(value, secret), nonce being what uuid4() gives.
TruncSha256HmacElseNonce(value, secret, nonce) ==
    IF secret = <<>> THEN nonce
    ELSE Slice(HmacHexdigest(secret, value), 0, 12)

----------------------------------------------------------------------------
(* The field accessors, on the raw value v of an identifier.               *)

\* HLID.hex
Hex(v) == RemoveHyphens(v)

\* A user_data read one character too early.
UserDataShifted(v) == Slice(v, 20, 22)

\* HLID.user_data
UserData(v) == Slice(v, 21, 23)

\* HLID.datetime: ok = FALSE is the ValueError of int(), of the sub-second
\* guard or of the datetime constructor.
Datetime(v) ==
    LET sub == PyInt(RemoveHyphens(Slice(v, 16, 21)), 10)
        y   == PyInt(Slice(v, 0, 4), 10)
        mo  == PyInt(Slice(v, 4, 6), 10)
        d   == PyInt(Slice(v, 6, 8), 10)
        h   == PyInt(Slice(v, 9, 11), 10)
        mi  == PyInt(Slice(v, 11, 13), 10)
        sec == PyInt(Slice(v, 14, 16), 10)
    IN  IF ~sub.ok \/ sub.val > 9999 THEN [ok |-> FALSE, dt |-> NoDt]
        ELSE IF ~(y.ok /\ mo.ok /\ d.ok /\ h.ok /\ mi.ok /\ sec.ok)
        THEN [ok |-> FALSE, dt |-> NoDt]
        ELSE PyDatetime(y.val, mo.val, d.val, h.val, mi.val, sec.val, sub.val * 100)

\* A validity test that never fails.
AgeOkSkipped(v) == TRUE

\* HLID.age raises exactly when HLID.datetime does: the subtraction from
\* now() cannot fail.
AgeOk(v) == Datetime(v).ok

----------------------------------------------------------------------------
(* The constructors.  A result is [err, value, is_signed]: err = "none" is *)
(* a returned identifier with that raw value and signed flag, any other    *)
(* err is the ValueError raised, named by its kind, and no identifier.     *)

Failed(kind) == [err |-> kind, value |-> <<>>, is_signed |-> FALSE]

Made(value, signed) == [err |-> "none", value |-> value, is_signed |-> signed]

\* The user_data checks, the same in __init__ and in from_datetime.
UserDataError(user_data) ==
    IF user_data = <<>> THEN "EmptyUserData"
    ELSE IF Len(user_data) # 2 THEN "InvalidUserDataLength"
    ELSE IF user_data # Lower(user_data) THEN "InvalidUserDataCase"
    ELSE IF ~PyInt(user_data, 16).ok THEN "InvalidUserDataChars"
    ELSE "none"

\* A regrouping that cuts the fourth group two characters late.
TransmorphMisgrouped(value) ==
    Slice(value, 0, 8) \o <<"-">> \o Slice(value, 8, 12) \o <<"-">>
        \o Slice(value, 12, 16) \o <<"-">> \o Slice(value, 16, 22) \o <<"-">>
        \o Slice(value, 22, 32)

\* f"{value[0:8]}-{value[8:12]}-{value[12:16]}-{value[16:20]}-{value[20:32]}"
Transmorph(value) ==
    Slice(value, 0, 8) \o <<"-">> \o Slice(value, 8, 12) \o <<"-">>
        \o Slice(value, 12, 16) \o <<"-">> \o Slice(value, 16, 20) \o <<"-">>
        \o Slice(value, 20, 32)

\* The timestamp part built from the current time ts: the first four digits
\* of %f, split in two, then user_data.
HlidTsNow(ts, ystr, user_data) ==
    LET ts_subseconds == Slice(ZPad(ts.microsecond, 6), 0, 4)
    IN  Strftime(ts, ystr) \o Slice(ts_subseconds, 0, 2) \o <<"-">>
            \o Slice(ts_subseconds, 2, 4) \o user_data

\* The raw value __init__ stores: the given one, re-grouped when it has 32
\* characters, else one generated from the clock reading ts.
StoredValue(value, secret, user_data, ts, ystr, nonce) ==
    IF value # <<>>
    THEN IF Len(value) = 32 THEN Transmorph(value) ELSE value
    ELSE LET hlid_ts == HlidTsNow(ts, ystr, user_data)
         IN  hlid_ts \o <<"-">> \o TruncSha256HmacElseNonce(hlid_ts, secret, nonce)

\* A keyed check that accepts every suffix.
HmacCheckSkipped(v, secret) == TRUE

\* The keyed-hash check of __init__ on the stored value.
HmacCheck(v, secret) ==
    LastGroup(v) = TruncSha256HmacElseNonce(BeforeLastGroup(v), secret, <<>>)

\* A constructor that makes the decoding check before the lowercase, secret
\* and keyed-hash checks.
HLIDInitDecodeFirst(value, secret, user_data, ts, ystr, nonce) ==
    LET v == StoredValue(value, secret, user_data, ts, ystr, nonce)
    IN  IF UserDataError(user_data) # "none" THEN Failed(UserDataError(user_data))
        ELSE IF ~AgeOk(v) THEN Failed("InvalidValue")
        ELSE IF value # <<>> /\ value # Lower(value) THEN Failed("MustBeLowercase")
        ELSE IF secret # <<>> /\ Len(secret) < 16 THEN Failed("SecretTooShort")
        ELSE IF secret # <<>> /\ ~HmacCheck(v, secret) THEN Failed("HmacCheckFailed")
        ELSE Made(v, secret # <<>>)

\* HLID(value, secret, user_data), the clock reading ts, the year as strftime
\* renders it and the nonce being what the environment supplies.
HLIDInit(value, secret, user_data, ts, ystr, nonce) ==
    LET v == StoredValue(value, secret, user_data, ts, ystr, nonce)
    IN  IF UserDataError(user_data) # "none" THEN Failed(UserDataError(user_data))
        ELSE IF value # <<>> /\ value # Lower(value) THEN Failed("MustBeLowercase")
        ELSE IF secret # <<>> /\ Len(secret) < 16 THEN Failed("SecretTooShort")
        ELSE IF secret # <<>> /\ ~HmacCheck(v, secret) THEN Failed("HmacCheckFailed")
        ELSE IF ~AgeOk(v) THEN Failed("InvalidValue")
        ELSE Made(v, secret # <<>>)

\* The timestamp part from_datetime builds from the UTC datetime dt_utc.
HlidTsFrom(dt_utc, ystr, user_data) ==
    LET subsecond_str == ZPad(dt_utc.microsecond \div 100, 4)
    IN  Strftime(dt_utc, ystr) \o Slice(subsecond_str, 0, 2) \o <<"-">>
            \o Slice(subsecond_str, 2, 4) \o user_data

\* HLID.from_datetime(dt, user_data, secret).
FromDatetime(dt, user_data, secret, ts, ystr, nonce) ==
    LET utc     == AsUTC(dt)
        hlid_ts == HlidTsFrom(utc.dt, ystr, user_data)
        suffix  == TruncSha256HmacElseNonce(hlid_ts, secret, nonce)
    IN  IF ~dt.aware THEN Failed("MissingTimezone")
        ELSE IF ~utc.ok THEN Failed("OverflowError")
        ELSE IF UserDataError(user_data) # "none" THEN Failed(UserDataError(user_data))
        ELSE HLIDInit(hlid_ts \o <<"-">> \o suffix, secret, <<"0", "0">>, ts, ystr, nonce)

----------------------------------------------------------------------------
(* The inputs the callers of the model draw from.                          *)

NoSecret == <<>>

\* uuid4().hex[0:8], too short, and two secrets of 16 and 17 characters.
ShortSecret == Rep("a", 8)

SecretA == Rep("a", 16)

SecretB == Rep("b", 17)

Secrets == {NoSecret, ShortSecret, SecretA, SecretB}

DefaultUserData == <<"0", "0">>

\* user_data arguments: empty, too short, too long, uppercase hex, uppercase
\* and not hex, lowercase and not hex, a sign and a digit, a blank and a
\* digit, and three values of two lowercase hex characters.
UserDatas ==
    { <<>>, <<"a">>, <<"a", "b", "c">>, <<"A", "A">>, <<"A", "g">>,
      <<"x", "x">>, <<"-", "1">>, <<" ", "1">>,
      DefaultUserData, <<"f", "f">>, <<"a", "5">> }

\* dt arguments of from_datetime: UTC and a multiple of 100 microseconds;
\* UTC+5; UTC-1 late on a leap day, not a multiple of 100 microseconds; a
\* year below 1000; the last representable microsecond; the first day at
\* UTC+5, which is before datetime.min in UTC; a naive datetime.
Datetimes ==
    { Dt(2024, 11, 5, 11, 8, 52, 520000, TRUE, 0),
      Dt(2024, 11, 5, 16, 8, 52, 0, TRUE, 300),
      Dt(2024, 2, 29, 23, 30, 0, 123456, TRUE, -60),
      Dt(999, 1, 1, 0, 0, 0, 0, TRUE, 0),
      Dt(9999, 12, 31, 23, 59, 59, 999999, TRUE, 0),
      Dt(1, 1, 1, 0, 0, 0, 0, TRUE, 300),
      Dt(2024, 11, 5, 11, 8, 52, 0, FALSE, 0) }

\* "20240229-1234-5678-00ff-1234567890ab": the leap day of the tests.
RawCanonical ==
    <<"2", "0", "2", "4", "0", "2", "2", "9", "-", "1", "2", "3", "4", "-",
      "5", "6", "7", "8", "-", "0", "0", "f", "f", "-", "1", "2", "3", "4",
      "5", "6", "7", "8", "9", "0", "a", "b">>

\* "202402291234567800ff1234567890ab": its compact form.
RawCompact ==
    <<"2", "0", "2", "4", "0", "2", "2", "9", "1", "2", "3", "4", "5", "6",
      "7", "8", "0", "0", "f", "f", "1", "2", "3", "4", "5", "6", "7", "8",
      "9", "0", "a", "b">>

\* "20240229-1234-5600-01ff-1234567890ab": canonical, 0.0001 s into the second.
RawLater ==
    <<"2", "0", "2", "4", "0", "2", "2", "9", "-", "1", "2", "3", "4", "-",
      "5", "6", "0", "0", "-", "0", "1", "f", "f", "-", "1", "2", "3", "4",
      "5", "6", "7", "8", "9", "0", "a", "b">>

\* "20240229-1234-5678-00ff-1234567890abgg": 38 characters, two of them not hex.
RawTooLong ==
    <<"2", "0", "2", "4", "0", "2", "2", "9", "-", "1", "2", "3", "4", "-",
      "5", "6", "7", "8", "-", "0", "0", "f", "f", "-", "1", "2", "3", "4",
      "5", "6", "7", "8", "9", "0", "a", "b", "g", "g">>

\* "20240229-1234-5678-00": cut after the sub-second field.
RawTooShort ==
    <<"2", "0", "2", "4", "0", "2", "2", "9", "-", "1", "2", "3", "4", "-",
      "5", "6", "7", "8", "-", "0", "0">>

\* "20240229-1234-56-9999ff-1234567890ab": 36 characters, the third hyphen two places early.
RawShiftedHyphen ==
    <<"2", "0", "2", "4", "0", "2", "2", "9", "-", "1", "2", "3", "4", "-",
      "5", "6", "-", "9", "9", "9", "9", "f", "f", "-", "1", "2", "3", "4",
      "5", "6", "7", "8", "9", "0", "a", "b">>

\* "20230229-1234-5678-00ff-1234567890ab": 29 February of a common year.
RawNoLeapDay ==
    <<"2", "0", "2", "3", "0", "2", "2", "9", "-", "1", "2", "3", "4", "-",
      "5", "6", "7", "8", "-", "0", "0", "f", "f", "-", "1", "2", "3", "4",
      "5", "6", "7", "8", "9", "0", "a", "b">>

\* "20240229-1234-5678-00FF-1234567890ab": an uppercase user-data byte.
RawUppercase ==
    <<"2", "0", "2", "4", "0", "2", "2", "9", "-", "1", "2", "3", "4", "-",
      "5", "6", "7", "8", "-", "0", "0", "F", "F", "-", "1", "2", "3", "4",
      "5", "6", "7", "8", "9", "0", "a", "b">>

\* "ffffffffffffffffffffffffffffffff": 32 hex characters that are no date.
RawGarbage ==
    <<"f", "f", "f", "f", "f", "f", "f", "f", "f", "f", "f", "f", "f", "f",
      "f", "f", "f", "f", "f", "f", "f", "f", "f", "f", "f", "f", "f", "f",
      "f", "f", "f", "f">>

\* "20240229-1234-567890000-1234567890ab": a sub-second field of 78900.
RawSubsecond ==
    <<"2", "0", "2", "4", "0", "2", "2", "9", "-", "1", "2", "3", "4", "-",
      "5", "6", "7", "8", "9", "0", "0", "0", "0", "-", "1", "2", "3", "4",
      "5", "6", "7", "8", "9", "0", "a", "b">>

RawValues ==
    { RawCanonical, RawCompact, RawLater, RawTooLong,
      RawTooShort, RawShiftedHyphen, RawNoLeapDay, RawUppercase,
      RawGarbage, RawSubsecond }

----------------------------------------------------------------------------
(* The state: the wall clock; the last call of a constructor with what it  *)
(* was given and what it gave; the identifiers a caller keeps and the last *)
(* sorted() of them; the outcome of the last operator applied to an        *)
(* identifier.                                                             *)

\* An identifier object: _value and _is_signed.
Id(value, signed) == [value |-> value, is_signed |-> signed]

\* A call of a constructor and its outcome r.  arg is the raw string given
\* (empty when none), reading the clock reading at the call, form and src
\* the way arg was derived from the identifier of an earlier call.
Call(op, r, arg, secret, user_data, dt, reading, form, src) ==
    [op |-> op, err |-> r.err, value |-> r.value, is_signed |-> r.is_signed,
     arg |-> arg, secret |-> secret, user_data |-> user_data, dt |-> dt,
     reading |-> reading, form |-> form,
     srcOp |-> src.op, srcValue |-> src.value, srcSigned |-> src.is_signed,
     srcSecret |-> src.secret, srcUserData |-> src.user_data]

NoSrc ==
    [op |-> "none", value |-> <<>>, is_signed |-> FALSE, secret |-> <<>>,
     user_data |-> <<>>]

NoCall == Call("none", Failed("none"), <<>>, <<>>, <<>>, NoDt, NoDt, "none", NoSrc)

\* No comparison evaluated yet.
NoOut == [op |-> "none", other |-> "none", result |-> "none"]

\* No sorted() evaluated yet.
NoSort == [input |-> <<>>, output |-> <<>>]

Init ==
    /\ clock = 0
    /\ last = NoCall
    /\ ids = <<>>
    /\ sortedIds = NoSort
    /\ out = NoOut

\* Time passes.
Tick ==
    /\ clock < MaxTick
    /\ clock' = clock + 1
    /\ UNCHANGED <<last, ids, sortedIds, out>>

\* The nonces uuid4() can give a call; with a secret it is not called.
NoncesFor(secret) == IF secret = <<>> THEN Nonces ELSE {<<>>}

\* A behaviour of Spec follows one identifier: a first call of a constructor,
\* then the parse of a string derived from what it returned.  No call reads
\* anything an earlier call wrote (the class keeps no state of its own), so
\* the first call of a behaviour stands for any call of the program.
Fresh == last.op = "none"

\* HLID(secret=..., user_data=...): an identifier of the current time.
New ==
    /\ Fresh
    /\ \E user_data \in UserDatas, secret \in Secrets :
        \E nonce \in NoncesFor(secret) :
            LET ts == ClockReading(clock)
            IN  \E ystr \in StrftimeYear(ts.year) :
                    /\ last' = Call("new",
                                    HLIDInit(<<>>, secret, user_data, ts, ystr, nonce),
                                    <<>>, secret, user_data, NoDt, ts, "none", NoSrc)
                    /\ UNCHANGED <<clock, ids, sortedIds, out>>

\* HLID.from_datetime(dt, user_data, secret).
NewFromDatetime ==
    /\ Fresh
    /\ \E dt \in Datetimes, user_data \in UserDatas, secret \in Secrets :
        \E nonce \in NoncesFor(secret) :
        \E ystr \in (IF dt.aware /\ AsUTC(dt).ok
                     THEN StrftimeYear(AsUTC(dt).dt.year) ELSE {<<>>}) :
            /\ last' = Call("from_datetime",
                            FromDatetime(dt, user_data, secret, ClockReading(clock),
                                         ystr, nonce),
                            <<>>, secret, user_data, dt, NoDt, "none", NoSrc)
            /\ UNCHANGED <<clock, ids, sortedIds, out>>

\* The user_data arguments given along with a raw string.
ParseUserDatas == {DefaultUserData, <<"f", "f">>, <<"A", "A">>}

\* HLID(value, secret, user_data): an identifier from a raw string.
Parse ==
    /\ Fresh
    /\ \E value \in RawValues, secret \in Secrets, user_data \in ParseUserDatas :
        /\ last' = Call("parse",
                        HLIDInit(value, secret, user_data,
                                 ClockReading(clock), <<>>, <<>>),
                        value, secret, user_data, NoDt, NoDt, "none", NoSrc)
        /\ UNCHANGED <<clock, ids, sortedIds, out>>

\* The strings a caller derives from an identifier's raw value v: x.hex,
\* str(x), str(x).upper() and str(x) with its last character changed.
Forms == {"hex", "str", "upper", "tampered"}

Derived(v, form) ==
    CASE form = "hex" -> Hex(v)
      [] form = "str" -> v
      [] form = "upper" -> Upper(v)
      [] form = "tampered" ->
            SubSeq(v, 1, Len(v) - 1) \o <<IF v[Len(v)] = "0" THEN "1" ELSE "0">>

\* HLID(f(x), secret) for the identifier x the last call returned.
Reparse ==
    /\ last.err = "none"
    /\ last.op \in {"new", "from_datetime", "parse"}
    /\ \E form \in Forms, secret \in Secrets :
        LET value == Derived(last.value, form)
        IN  /\ last' = Call("reparse",
                            HLIDInit(value, secret, DefaultUserData,
                                     ClockReading(clock), <<>>, <<>>),
                            value, secret, DefaultUserData, NoDt, NoDt, form, last)
            /\ UNCHANGED <<clock, ids, sortedIds, out>>

Next == Tick \/ New \/ NewFromDatetime \/ Parse \/ Reparse

Spec == Init /\ [][Next]_vars

----------------------------------------------------------------------------
(* The comparison operators.  A rich-comparison method gives "True",       *)
(* "False" or "NotImplemented"; an operator gives "True", "False" or       *)
(* "TypeError".                                                            *)

Bool(b) == IF b THEN "True" ELSE "False"

\* a <= b, a > b, a >= b on Python strings.
StrLe(a, b) == a = b \/ StrLt(a, b)

\* The right operands of a comparison with the identifier x: an identifier
\* with the same raw value, an identifier with another one, the str of x,
\* an int, None, and an object whose class answers every comparison with
\* any operand itself (a sentinel that orders above everything).
Others(x) ==
    { [kind |-> "HLID", value |-> x.value],
      [kind |-> "HLID", value |-> RawLater],
      [kind |-> "str", value |-> x.value],
      [kind |-> "int", value |-> <<>>],
      [kind |-> "NoneType", value |-> <<>>],
      [kind |-> "Sentinel", value |-> <<>>] }

\* isinstance(other, HLID)
IsHLID(other) == other.kind = "HLID"

\* HLID.__eq__
Eq(x, other) ==
    IF ~IsHLID(other) THEN "False" ELSE Bool(x.value = other.value)

\* A less-than that orders identifiers backwards.
LtReversed(x, other) ==
    IF ~IsHLID(other) THEN "NotImplemented" ELSE Bool(StrLt(other.value, x.value))

\* HLID.__lt__
Lt(x, other) ==
    IF ~IsHLID(other) THEN "NotImplemented" ELSE Bool(StrLt(x.value, other.value))

\* HLID.__le__
Le(x, other) ==
    IF ~IsHLID(other) THEN "NotImplemented" ELSE Bool(StrLe(x.value, other.value))

\* HLID.__gt__
Gt(x, other) ==
    IF ~IsHLID(other) THEN "NotImplemented" ELSE Bool(StrLt(other.value, x.value))

\* HLID.__ge__
Ge(x, other) ==
    IF ~IsHLID(other) THEN "NotImplemented" ELSE Bool(StrLe(other.value, x.value))

CompareOps == {"==", "!=", "<", "<=", ">", ">="}

\* The method of HLID behind x op other.  The class defines no __ne__: the
\* inherited one inverts what __eq__ gives.
Method(op, x, other) ==
    CASE op = "==" -> Eq(x, other)
      [] op = "!=" -> Bool(Eq(x, other) = "False")
      [] op = "<"  -> Lt(x, other)
      [] op = "<=" -> Le(x, other)
      [] op = ">"  -> Gt(x, other)
      [] op = ">=" -> Ge(x, other)

\* What the reflected method of the right operand's class gives for
\* x op other: str, int and None know no HLID, the sentinel answers.
Reflected(op, other) ==
    IF other.kind = "Sentinel" THEN Bool(op \in {"!=", "<", "<="})
    ELSE "NotImplemented"

\* The expression x op other: the left operand's method first; when it
\* returns NotImplemented the right operand's reflected method; when both
\* do, identity for == and !=, TypeError for the four orderings.
Compare(op, x, other) ==
    IF Method(op, x, other) # "NotImplemented" THEN Method(op, x, other)
    ELSE IF Reflected(op, other) # "NotImplemented" THEN Reflected(op, other)
    ELSE IF op = "==" THEN "False"
    ELSE IF op = "!=" THEN "True"
    ELSE "TypeError"

\* x op other, for the identifier x the last call returned.
CompareWith ==
    /\ last.err = "none"
    /\ last.op \in {"new", "from_datetime", "parse"}
    /\ \E op \in CompareOps, other \in Others(Id(last.value, last.is_signed)) :
        /\ out' = [op |-> op, other |-> other.kind,
                   result |-> Compare(op, Id(last.value, last.is_signed), other)]
        /\ UNCHANGED <<clock, last, ids, sortedIds>>

NextOps == Tick \/ New \/ NewFromDatetime \/ Parse \/ CompareWith

\* One identifier and the operators applied to it.
SpecOps == Init /\ [][NextOps]_vars

----------------------------------------------------------------------------
(* Several identifiers: a caller keeps the identifiers the constructors    *)
(* return, in the order of their creation, and sorts them.                 *)

\* A kept identifier: the object, the constructor that made it and, for one
\* made from the current time, the clock reading of its creation.
Kept(r, op, reading) ==
    [kind |-> "HLID", value |-> r.value, is_signed |-> r.is_signed,
     op |-> op, reading |-> reading]

\* ids.append(HLID()), while fewer than cap are kept.
KeepNew(cap) ==
    /\ Len(ids) < cap
    /\ \E nonce \in Nonces :
        LET ts == ClockReading(clock)
        IN  \E ystr \in StrftimeYear(ts.year) :
            LET r == HLIDInit(<<>>, NoSecret, DefaultUserData, ts, ystr, nonce)
            IN  /\ r.err = "none"
                /\ ids' = Append(ids, Kept(r, "new", ts))
                /\ UNCHANGED <<clock, last, sortedIds, out>>

\* ids.append(HLID.from_datetime(dt)), the call raising nothing.
KeepFromDatetime(cap) ==
    /\ Len(ids) < cap
    /\ \E dt \in Datetimes, nonce \in Nonces :
       \E ystr \in (IF dt.aware /\ AsUTC(dt).ok
                    THEN StrftimeYear(AsUTC(dt).dt.year) ELSE {<<>>}) :
            LET r == FromDatetime(dt, DefaultUserData, NoSecret,
                                  ClockReading(clock), ystr, nonce)
            IN  /\ r.err = "none"
                /\ ids' = Append(ids, Kept(r, "from_datetime", NoDt))
                /\ UNCHANGED <<clock, last, sortedIds, out>>

\* ids.append(HLID(value)), the call raising nothing.
KeepParsed(cap) ==
    /\ Len(ids) < cap
    /\ \E value \in RawValues :
            LET r == HLIDInit(value, NoSecret, DefaultUserData,
                              ClockReading(clock), <<>>, <<>>)
            IN  /\ r.err = "none"
                /\ ids' = Append(ids, Kept(r, "parse", NoDt))
                /\ UNCHANGED <<clock, last, sortedIds, out>>

\* s with x put before its first element that x is less than.
RECURSIVE Insert(_, _)
Insert(x, s) ==
    IF s = <<>> THEN <<x>>
    ELSE IF Compare("<", x, Head(s)) = "True" THEN <<x>> \o s
    ELSE <<Head(s)>> \o Insert(x, Tail(s))

\* sorted(s): built on <, stable.
RECURSIVE Sorted(_)
Sorted(s) ==
    IF s = <<>> THEN <<>>
    ELSE Insert(s[Len(s)], Sorted(SubSeq(s, 1, Len(s) - 1)))

\* The permutations of 1..n.
Perms(n) == {f \in [1..n -> 1..n] : \A i, j \in 1..n : i # j => f[i] # f[j]}

\* sorted() of the kept identifiers in some shuffled order.  A behaviour
\* sorts one shuffle: sorted() reads only its argument, so a second call
\* adds nothing the first one does not show.
SortKept ==
    /\ Len(ids) >= 2
    /\ sortedIds = NoSort
    /\ \E f \in Perms(Len(ids)) :
        LET shuffled == [i \in 1..Len(ids) |-> ids[f[i]]]
        IN  /\ sortedIds' = [input |-> shuffled, output |-> Sorted(shuffled)]
            /\ UNCHANGED <<clock, last, ids, out>>

\* The caller collects the identifiers first and sorts them afterwards.
SeqNew == sortedIds = NoSort /\ KeepNew(MaxIds)

NextSeq == Tick \/ SeqNew \/ SortKept

\* Identifiers created one after another from the current time, and sorted.
SpecSeq == Init /\ [][NextSeq]_vars

PairNew == KeepNew(2)

PairFromDatetime == KeepFromDatetime(2)

PairParsed == KeepParsed(2)

NextPair == Tick \/ PairNew \/ PairFromDatetime \/ PairParsed

\* Two identifiers, each from any of the constructors.
SpecPair == Init /\ [][NextPair]_vars

----------------------------------------------------------------------------
(* Parsing on its own: more raw strings, each parsed once and the         *)
(* identifier it gives parsed again from its derived forms.               *)

\* "99991231-2359-5999-9900-1234567890ab": the last 10^-4 s of the year 9999.
RawFuture ==
    <<"9", "9", "9", "9", "1", "2", "3", "1", "-", "2", "3", "5", "9", "-",
      "5", "9", "9", "9", "-", "9", "9", "0", "0", "-", "1", "2", "3", "4",
      "5", "6", "7", "8", "9", "0", "a", "b">>

\* "FFFFFFFFFFFFFFFFFFFFFFFFFFFFFFFF": uppercase, and no date.
RawUpperGarbage ==
    <<"F", "F", "F", "F", "F", "F", "F", "F", "F", "F", "F", "F", "F", "F",
      "F", "F", "F", "F", "F", "F", "F", "F", "F", "F", "F", "F", "F", "F",
      "F", "F", "F", "F">>

\* "202402291234567800ff-12345678901": 32 characters, one of them a hyphen.
RawCompactHyphen ==
    <<"2", "0", "2", "4", "0", "2", "2", "9", "1", "2", "3", "4", "5", "6",
      "7", "8", "0", "0", "f", "f", "-", "1", "2", "3", "4", "5", "6", "7",
      "8", "9", "0", "1">>

\* "202402291234567800ffgggggggggggg": 32 characters, 12 of them not hex.
RawCompactNonHex ==
    <<"2", "0", "2", "4", "0", "2", "2", "9", "1", "2", "3", "4", "5", "6",
      "7", "8", "0", "0", "f", "f", "g", "g", "g", "g", "g", "g", "g", "g",
      "g", "g", "g", "g">>

\* "20240229-1234-56": cut before the sub-second field.
RawCutShort ==
    <<"2", "0", "2", "4", "0", "2", "2", "9", "-", "1", "2", "3", "4", "-",
      "5", "6">>

MoreRawValues ==
    RawValues \cup { RawFuture, RawUpperGarbage, RawCompactHyphen,
                     RawCompactNonHex, RawCutShort }

\* HLID(value, secret, user_data) for any of the raw strings.
ParseMore ==
    /\ Fresh
    /\ \E value \in MoreRawValues, secret \in Secrets, user_data \in ParseUserDatas :
        /\ last' = Call("parse",
                        HLIDInit(value, secret, user_data,
                                 ClockReading(clock), <<>>, <<>>),
                        value, secret, user_data, NoDt, NoDt, "none", NoSrc)
        /\ UNCHANGED <<clock, ids, sortedIds, out>>

NextParse == Tick \/ ParseMore \/ Reparse

SpecParse == Init /\ [][NextParse]_vars

----------------------------------------------------------------------------
(* The operations of an identifier, applied to the one the last call       *)
(* returned.                                                               *)

\* a - b of two UTC datetimes, as the timedelta [days, seconds, microseconds].
Delta(a, b) ==
    LET d   == ToOrdinal(a.year, a.month, a.day) - ToOrdinal(b.year, b.month, b.day)
        sec == (a.hour * 3600 + a.minute * 60 + a.second)
                 - (b.hour * 3600 + b.minute * 60 + b.second)
        us  == a.microsecond - b.microsecond
        sec1 == IF us < 0 THEN sec - 1 ELSE sec
    IN  [days |-> IF sec1 < 0 THEN d - 1 ELSE d,
         seconds |-> IF sec1 < 0 THEN sec1 + 86400 ELSE sec1,
         microseconds |-> IF us < 0 THEN us + 1000000 ELSE us]

\* The epoch datetime.timestamp() counts from.
Epoch == Dt(1970, 1, 1, 0, 0, 0, 0, TRUE, 0)

\* HLID.__repr__
Repr(x) ==
    <<"H", "L", "I", "D", "(">> \o x.value \o <<")">>
        \o (IF x.is_signed THEN <<"s">> ELSE <<>>)

\* The operations that take no argument.
UseOps == {"str", "call", "repr", "hex", "user_data", "datetime", "time", "age", "hash"}

\* What operation op of the identifier x returns when the clock reads now.
Result(op, x, now) ==
    CASE op \in {"str", "call"} -> x.value
      [] op = "repr" -> Repr(x)
      [] op = "hex" -> Hex(x.value)
      [] op = "user_data" -> UserData(x.value)
      [] op = "datetime" -> Datetime(x.value).dt
      [] op = "time" -> Delta(Datetime(x.value).dt, Epoch)
      [] op = "age" -> Delta(now, Datetime(x.value).dt)
      [] op = "hash" -> Checksum(x.value)

\* An object whose signed flag an operation has cleared.
AfterUnsigned(op, x) == [x EXCEPT !.is_signed = FALSE]

\* The identifier x after operation op: no method assigns to self.
After(op, x) == x

\* str(x), x(), repr(x), x.hex, x.user_data, x.datetime, x.time, x.age or
\* hash(x) of the identifier the last call returned.
Use ==
    /\ last.op # "none" /\ last.err = "none"
    /\ \E op \in UseOps :
        LET x == Id(last.value, last.is_signed)
            y == After(op, x)
        IN  /\ out' = [op |-> op, other |-> "none",
                       result |-> Result(op, x, ClockReading(clock))]
            /\ last' = [last EXCEPT !.value = y.value, !.is_signed = y.is_signed]
            /\ UNCHANGED <<clock, ids, sortedIds>>

NextUse == Tick \/ New \/ NewFromDatetime \/ Parse \/ CompareWith \/ Use

\* One identifier and every operation on it, in any order.
SpecUse == Init /\ [][NextUse]_vars

----------------------------------------------------------------------------
(* The claims about one identifier, checked under Spec.                    *)

\* The characters of a canonical raw value.
LowerHexChars == {HexDigits[i] : i \in 1..Len(HexDigits)}

UpperChars == {UpperLetters[i] : i \in 1..Len(UpperLetters)}

\* Exactly two characters, each in 0-9 or a-f.
ValidUserData(ud) == Len(ud) = 2 /\ \A i \in 1..Len(ud) : ud[i] \in LowerHexChars

\* The last call returned an identifier.
Returned == last.op \in {"new", "from_datetime", "parse", "reparse"} /\ last.err = "none"

\* The first 12 hex characters of the keyed hash of the groups of v that
\* precede its last one.
KeyedSuffix(v, secret) == Slice(HmacHexdigest(secret, BeforeLastGroup(v)), 0, 12)

\* The last 12 characters of s (all of s when it is shorter).
Trailing12(s) == SubSeq(s, Max(1, Len(s) - 11), Len(s))

\* C1: every identifier a constructor returns has a raw value of exactly 36
\* characters, each of them in 0-9, a-f or "-".
C1_RawValueCanonical ==
    Returned =>
        /\ Len(last.value) = 36
        /\ \A i \in 1..Len(last.value) : last.value[i] \in LowerHexChars \cup {"-"}

\* C2: an identifier x created from the current time or from_datetime with a
\* secret s of 16 or more characters and a valid user_data parses back, from
\* x.hex and from str(x), with the same s: the parse succeeds, has the raw
\* value of x and is signed.
C2_SignedRoundTrip ==
    ( /\ last.op = "reparse"
      /\ last.form \in {"hex", "str"}
      /\ last.srcOp \in {"new", "from_datetime"}
      /\ Len(last.srcSecret) >= 16
      /\ last.secret = last.srcSecret
      /\ ValidUserData(last.srcUserData) )
    => ( /\ last.err = "none"
         /\ last.value = last.srcValue
         /\ last.is_signed )

\* C2 witness: a signed identifier made by from_datetime was parsed back
\* from its compact form with its secret.
C2_Witness ==
    /\ last.op = "reparse" /\ last.form = "hex" /\ last.srcOp = "from_datetime"
    /\ last.secret = SecretB /\ last.srcSecret = SecretB
    /\ last.srcUserData = <<"a", "5">>
    /\ last.err = "none" /\ last.is_signed

\* The first half of C3: a returned identifier is signed exactly when a
\* non-empty secret was given and its last group is the keyed suffix of the
\* groups before it.
SignedIffKeyed ==
    Returned =>
        (last.is_signed <=>
            (last.secret # <<>> /\ LastGroup(last.value) = KeyedSuffix(last.value, last.secret)))

\* The raw value a parse of arg works on: arg, re-grouped when compact.
Regrouped(arg) == IF Len(arg) = 32 THEN Transmorph(arg) ELSE arg

\* The last call parsed a raw string with a secret of 16 or more characters,
\* and the string's trailing 12 characters are not the recomputed suffix.
ParsedWithWrongSuffix ==
    /\ last.op \in {"parse", "reparse"}
    /\ Len(last.secret) >= 16
    /\ Trailing12(last.arg) # KeyedSuffix(Regrouped(last.arg), last.secret)

\* C3 as stated: signed iff keyed, and any parse with a secret of 16 or more
\* characters of a string whose trailing 12 characters are not the
\* recomputed suffix fails with HmacCheckFailed.
C3_Original ==
    /\ SignedIffKeyed
    /\ ParsedWithWrongSuffix => last.err = "HmacCheckFailed"

\* C3 as amended: signed iff keyed, and a parse with a secret of 16 or more
\* characters of a string without uppercase characters (and with a valid
\* user_data) whose trailing 12 characters are not the recomputed suffix
\* fails with HmacCheckFailed and returns no identifier.
C3_SignedIffHmacChecked ==
    /\ SignedIffKeyed
    /\ ( /\ ParsedWithWrongSuffix
         /\ \A i \in 1..Len(last.arg) : last.arg[i] \notin UpperChars
         /\ ValidUserData(last.user_data) )
       => last.err = "HmacCheckFailed"

\* C3 witness: the string of a signed identifier with its last character
\* changed was parsed with the identifier's secret and refused.
C3_Witness ==
    /\ last.op = "reparse" /\ last.form = "tampered"
    /\ last.srcSigned /\ last.secret = last.srcSecret
    /\ last.err = "HmacCheckFailed"

\* C4: the compact form of any returned identifier x parses, without a
\* secret, to an identifier equal to x.
C4_HexRoundTrip ==
    (last.op = "reparse" /\ last.form = "hex" /\ last.secret = <<>>)
    => (last.err = "none" /\ last.value = last.srcValue)

\* The user-data error C5 expects of a user_data argument, "none" for one
\* that is to be accepted.
ExpectedUserDataError(ud) ==
    IF ud = <<>> THEN "EmptyUserData"
    ELSE IF Len(ud) # 2 THEN "InvalidUserDataLength"
    ELSE IF \E i \in 1..Len(ud) : ud[i] \in UpperChars THEN "InvalidUserDataCase"
    ELSE IF \E i \in 1..Len(ud) : ud[i] \notin LowerHexChars THEN "InvalidUserDataChars"
    ELSE "none"

UserDataErrors ==
    {"EmptyUserData", "InvalidUserDataLength", "InvalidUserDataCase", "InvalidUserDataChars"}

\* C5: construction from the current time and from_datetime (of a datetime
\* it can convert) reject every user_data that is not two lowercase hex
\* characters, with the error chosen in the order empty, length, uppercase,
\* not hex, and raise no user-data error for one that is.
C5_UserDataValidation ==
    ( /\ last.op \in {"new", "from_datetime"}
      /\ last.op = "from_datetime" => (last.dt.aware /\ AsUTC(last.dt).ok) )
    => IF ExpectedUserDataError(last.user_data) = "none"
       THEN last.err \notin UserDataErrors
       ELSE last.err = ExpectedUserDataError(last.user_data)

\* C6: an identifier created with a valid user_data returns it from its
\* user_data accessor, and so does the identifier parsed from its compact
\* form, which parses.
C6_UserDataReadBack ==
    /\ ( /\ last.op \in {"new", "from_datetime"}
         /\ last.err = "none"
         /\ ValidUserData(last.user_data) )
       => UserData(last.value) = last.user_data
    /\ ( /\ last.op = "reparse" /\ last.form = "hex" /\ last.secret = <<>>
         /\ last.srcOp \in {"new", "from_datetime"}
         /\ ValidUserData(last.srcUserData) )
       => (last.err = "none" /\ UserData(last.value) = last.srcUserData)

\* C6 witness: an identifier made with user_data "a5" and a secret was
\* parsed from its compact form and gives "a5" back.
C6_Witness ==
    /\ last.op = "reparse" /\ last.form = "hex" /\ last.secret = <<>>
    /\ last.srcOp = "new" /\ last.srcSigned
    /\ last.srcUserData = <<"a", "5">>
    /\ last.err = "none" /\ UserData(last.value) = <<"a", "5">>

\* dt with its microsecond replaced by (microsecond // 100) * 100.
Truncated(dt) == [dt EXCEPT !.microsecond = (dt.microsecond \div 100) * 100]

\* C7: from_datetime(dt) of an aware datetime whose UTC instant is within
\* datetime.min..datetime.max succeeds, and the datetime accessor of the
\* result is dt in UTC with the microsecond truncated to a multiple of 100.
C7_FromDatetimeRoundTrip ==
    ( /\ last.op = "from_datetime"
      /\ last.dt.aware /\ AsUTC(last.dt).ok
      /\ last.user_data = DefaultUserData /\ last.secret = NoSecret )
    => ( /\ last.err = "none"
         /\ Datetime(last.value).ok
         /\ Datetime(last.value).dt = Truncated(AsUTC(last.dt).dt) )

----------------------------------------------------------------------------
(* The claims about several identifiers, checked under SpecPair (C8) and   *)
(* SpecSeq (C9).                                                           *)

\* The timestamp decoded from a kept identifier.
Decoded(x) == Datetime(x.value).dt

\* C8: of two returned identifiers, the one whose decoded timestamp is
\* strictly earlier is the smaller one.
C8_TimestampOrder ==
    \A i, j \in 1..Len(ids) :
        DtLt(Decoded(ids[i]), Decoded(ids[j]))
            => Compare("<", ids[i], ids[j]) = "True"

\* The identifiers kept were all made from the current time, without a secret.
AllFromNow == \A i \in 1..Len(ids) : ids[i].op = "new" /\ ~ids[i].is_signed

\* sortedIds is the sorted() of all the identifiers kept now.
SortedAll == Len(ids) >= 2 /\ Len(sortedIds.input) = Len(ids)

\* C9 as stated: an identifier created at a strictly smaller clock reading is
\* strictly less than a later one, and sorting any shuffle of a sequence
\* created at strictly increasing readings restores the creation order.
C9_Original ==
    AllFromNow =>
        /\ \A i, j \in 1..Len(ids) :
              (i < j /\ DtLt(ids[i].reading, ids[j].reading))
                  => Compare("<", ids[i], ids[j]) = "True"
        /\ ( /\ SortedAll
             /\ \A i \in 1..(Len(ids) - 1) : DtLt(ids[i].reading, ids[i + 1].reading) )
           => sortedIds.output = ids

\* C9 as amended: the same of clock readings that differ once truncated to
\* 10^-4 s, the resolution of the encoded timestamp.
C9_CreationOrder ==
    AllFromNow =>
        /\ \A i, j \in 1..Len(ids) :
              (i < j /\ DtLt(Truncated(ids[i].reading), Truncated(ids[j].reading)))
                  => Compare("<", ids[i], ids[j]) = "True"
        /\ ( /\ SortedAll
             /\ \A i \in 1..(Len(ids) - 1) :
                    DtLt(Truncated(ids[i].reading), Truncated(ids[i + 1].reading)) )
           => sortedIds.output = ids

\* C9 witness: three identifiers created in three different 10^-4 s were
\* shuffled, and sorted() gave them back in creation order.
C9_Witness ==
    /\ Len(ids) >= 3 /\ AllFromNow /\ SortedAll
    /\ \A i \in 1..(Len(ids) - 1) :
           DtLt(Truncated(ids[i].reading), Truncated(ids[i + 1].reading))
    /\ sortedIds.input # ids
    /\ sortedIds.output = ids

----------------------------------------------------------------------------
(* The claim about the comparison operators, checked under SpecOps.        *)

\* C10: compared with a value that is no identifier, == gives False and !=
\* gives True without raising, and each of <, <=, >, >= raises TypeError.
C10_NonIdentifierComparison ==
    (out.op # "none" /\ out.other # "HLID") =>
        CASE out.op = "==" -> out.result = "False"
          [] out.op = "!=" -> out.result = "True"
          [] OTHER -> out.result = "TypeError"

----------------------------------------------------------------------------
(* The claims about parsing, checked under SpecParse.                      *)

\* The last call parsed a raw string.
Parsed == last.op \in {"parse", "reparse"}

\* The fields of the string the last call parsed do not decode.
Undecodable == Parsed /\ ~Datetime(Regrouped(last.arg)).ok

\* A returned identifier decodes to a date and time with a sub-second field
\* in 0..9999.
DecodesWhenReturned ==
    (Parsed /\ last.err = "none") =>
        /\ Datetime(last.value).ok
        /\ Datetime(last.value).dt.microsecond \in {n * 100 : n \in 0..9999}

\* The leap day and the date in the future, parsed without a secret and
\* with the default user_data, are accepted.
ValidDatesAccepted ==
    ( /\ last.op = "parse" /\ last.arg \in {RawCanonical, RawFuture}
      /\ last.secret = <<>> /\ last.user_data = DefaultUserData )
    => last.err = "none"

\* No check that __init__ makes before the decoding check fails for the
\* last call.
EarlierChecksPass ==
    /\ ValidUserData(last.user_data)
    /\ \A i \in 1..Len(last.arg) : last.arg[i] \notin UpperChars
    /\ \/ last.secret = <<>>
       \/ /\ Len(last.secret) >= 16
          /\ LastGroup(Regrouped(last.arg)) = KeyedSuffix(Regrouped(last.arg), last.secret)

HasUpper == \E i \in 1..Len(last.arg) : last.arg[i] \in UpperChars

\* The last group of the string the last call parsed is not the keyed suffix
\* of the groups before it.
SuffixMismatch ==
    LastGroup(Regrouped(last.arg)) # KeyedSuffix(Regrouped(last.arg), last.secret)

\* C12: a parse with a valid user_data reports the first failing check of
\* uppercase -> MustBeLowercase, secret shorter than 16 -> SecretTooShort,
\* suffix mismatch -> HmacCheckFailed, fields that do not decode ->
\* InvalidValue; InvalidValue is reported only when all the others pass.
C12_CheckOrder ==
    (Parsed /\ ValidUserData(last.user_data)) =>
        /\ HasUpper => last.err = "MustBeLowercase"
        /\ (~HasUpper /\ last.secret # <<>> /\ Len(last.secret) < 16)
              => last.err = "SecretTooShort"
        /\ (~HasUpper /\ Len(last.secret) >= 16 /\ SuffixMismatch)
              => last.err = "HmacCheckFailed"
        /\ last.err = "InvalidValue"
              => ( /\ Undecodable /\ ~HasUpper
                   /\ (last.secret = <<>> \/ (Len(last.secret) >= 16 /\ ~SuffixMismatch)) )
        /\ (Undecodable /\ ~HasUpper
                /\ (last.secret = <<>> \/ (Len(last.secret) >= 16 /\ ~SuffixMismatch)))
              => last.err = "InvalidValue"

\* C12 witness: a string that is uppercase and no date was parsed with a
\* secret that is too short, and the error was MustBeLowercase.
C12_Witness ==
    /\ last.op = "parse" /\ last.arg = RawUpperGarbage
    /\ last.secret = ShortSecret /\ last.user_data = DefaultUserData
    /\ Undecodable
    /\ last.err = "MustBeLowercase"

\* s is exactly 32 characters, each in 0-9 or a-f (so none a hyphen).
Compact32(s) == Len(s) = 32 /\ \A i \in 1..Len(s) : s[i] \in LowerHexChars

\* The positions of the hyphens of s.
HyphenPositions(s) == {i \in 1..Len(s) : s[i] = "-"}

\* C13: a parse that returns an identifier stored its input re-grouped as
\* 8-4-4-4-12 only if the input was exactly 32 hex characters without a
\* hyphen, and stored every other input verbatim; and the hyphenated and the
\* compact form of an identifier parse, without a secret, to its raw value
\* and so to the same decoded fields.
C13_RegroupOnlyCompact ==
    /\ (Parsed /\ last.err = "none") =>
          IF Compact32(last.arg)
          THEN /\ RemoveHyphens(last.value) = last.arg
               /\ HyphenPositions(last.value) = {9, 14, 19, 24}
          ELSE last.value = last.arg
    /\ (last.op = "reparse" /\ last.form \in {"hex", "str"} /\ last.secret = <<>>) =>
          /\ last.err = "none"
          /\ last.value = last.srcValue
          /\ Datetime(last.value) = Datetime(last.srcValue)
          /\ UserData(last.value) = UserData(last.srcValue)

----------------------------------------------------------------------------
(* The claim about the operations, checked under SpecUse.                  *)

\* C14: a constructor that raises leaves no identifier, and once a
\* constructor was called no operation changes the raw value, the signed
\* flag or the outcome of the call.
C14_Immutable ==
    /\ [](last.err # "none" => (last.value = <<>> /\ ~last.is_signed))
    /\ [][last.op # "none" =>
            /\ last'.value = last.value
            /\ last'.is_signed = last.is_signed
            /\ last'.err = last.err]_vars

\* C14 witness: repr() of a signed identifier was taken, and the identifier
\* is still signed with the raw value repr() showed.
C14_Witness ==
    /\ last.op = "new" /\ last.err = "none" /\ last.is_signed
    /\ out.op = "repr"
    /\ out.result = <<"H", "L", "I", "D", "(">> \o last.value \o <<")", "s">>

====
